---- MODULE Spec2Model ----
(***************************************************************************)
(* Model of the remote-yt web client (ui/src): the Queue component that    *)
(* polls /api/inspect, mirrors the up-next list for drag reordering and    *)
(* dispatches Move requests; the command mutations of lib/commands.ts and  *)
(* the controls that call them; the enqueue mutation of App with the Form  *)
(* that feeds it; the history effect of NowPlaying; together with the part *)
(* of @tanstack/react-query and @dnd-kit the behaviour rests on.           *)
(*                                                                         *)
(* A queue entry is represented by its job_id; of its track_info only      *)
(* webpage_url is read by a modelled decision.  None stands for null /     *)
(* undefined.                                                              *)
(***************************************************************************)
EXTENDS Integers, Sequences, FiniteSets, TLC

\* ---- bounds ----
NumJobs == 3          \* job_ids the server hands out: 1..NumJobs
MaxMoves == 2         \* Move requests that may be in flight at once
MaxCommands == 1      \* other command requests that may be in flight at once
MaxEnqueues == 2      \* enqueue requests not yet followed by a successful poll
MaxLength == 2        \* longest length in seconds of a track being played

\* ---- program constants ----
Retry == 3            \* failed fetch attempts retried before a poll fails

None == 0
Jobs == 1..NumJobs

VARIABLES
  data,          \* useQuery data: <<>> while undefined, else <<InspectApi>>
  status,        \* useQuery status: "pending" | "success" | "error"
  error,         \* useQuery error: TRUE when an Error is held, FALSE for null
  fetchStatus,   \* useQuery fetchStatus: "idle" | "fetching"
  failureCount,  \* failed attempts of the fetch in flight
  errorRef,      \* errorRef.current: TRUE when it holds an Error
  queue,         \* useState mirror of the up-next list (job_ids)
  active,        \* job_id held by a drag gesture in progress, None otherwise
  inFlight,      \* number of /api/move requests sent and not yet settled
  sent,          \* the /api/move requests handed to fetch by the last step
  dragEnd,       \* the DragEndEvent delivered by the last step, else <<>>
  quiet,         \* history: consecutive successful polls since the last
                 \* user action (saturates at 2)
  pending,       \* per command mutation other than reorderMutation: requests
                 \* sent and not yet settled
  request,       \* the request other than /api/move handed to fetch by the
                 \* last step: <<[endpoint, body]>>, else <<>>
  settled,       \* the request whose completion the last step delivered:
                 \* <<[mutation, outcome]>>, else <<>>
  submitted,     \* the form values read by handleSubmit in the last step:
                 \* <<[quality, url]>>, else <<>>
  clicked,       \* the button of the "Clear all" AlertDialog clicked in the
                 \* last step: <<name>>, else <<>>
  dialog,        \* the "Clear all" AlertDialog is open
  visible,       \* PlayerProgress useState visible
  isDragging,    \* PlayerProgress useState isDragging
  dragTime,      \* PlayerProgress useState dragTime: <<>> for null, else <<t>>
  form,          \* which of the two Form sources is built in
  earlier,       \* enqueue requests in flight other than the latest one
  isPending,     \* mutation.isPending of App: the latest enqueue request is
                 \* in flight
  toasts,        \* number of toast.error calls made by the last step
  awaiting,      \* history: enqueue requests completed with no successful
                 \* poll completed since
  invalidated,   \* number of invalidateQueries(["history"]) calls made by
                 \* the last step
  stale          \* history: the fetch in flight was issued before a command
                 \* completed that the server may have applied

vars == <<data, status, error, fetchStatus, failureCount, errorRef, queue,
          active, inFlight, sent, dragEnd, quiet, pending, request, settled,
          submitted, clicked, dialog, visible, isDragging, dragTime, form, earlier, isPending, toasts, awaiting,
          invalidated, stale>>

pollVars == <<data, status, error, fetchStatus, failureCount, errorRef>>

\* state of the controls that dispatch the other commands
commandVars == <<pending, dialog, visible, isDragging, dragTime>>

\* state of the enqueue mutation of App and of the Form
enqueueVars == <<form, earlier, isPending, awaiting>>

\* ---- helpers ----
Range(s) == {s[i] : i \in 1..Len(s)}

Min(a, b) == IF a < b THEN a ELSE b

Max(a, b) == IF a > b THEN a ELSE b

\* sequences over S without repetition
DistinctSeqs(S) ==
  UNION {{s \in [1..n -> S] : \A i, j \in 1..n : i # j => s[i] # s[j]} :
         n \in 0..Cardinality(S)}

\* PlayerState, as far as it is read by a decision: volume (0 or not) and
\* length; <<>> stands for player: null.  state and time are only displayed.
PlayerState ==
  {<<>>} \cup {<<[volume |-> v, length |-> l]>> : v \in {0, 100}, l \in 1..MaxLength}

\* InspectApi: the queue sequence excludes the now-playing entry and job_ids
\* are unique among the tracked entries.
InspectApi ==
  UNION {{[now_playing |-> np, queue |-> q, player |-> pl] :
            q \in DistinctSeqs(Jobs \ {np}), pl \in PlayerState} :
         np \in Jobs \cup {None}}

\* const items = useMemo(() => data?.queue ?? [], [data])
itemsOf(d) == IF d = <<>> THEN <<>> ELSE d[1].queue

items == itemsOf(data)

\* items.length > 1 ? items.map(...).slice(1) : []
UpNext(its) == IF Len(its) > 1 THEN Tail(its) ELSE <<>>

\* const nowPlaying = items[0] ?? null
nowPlayingOf(its) == IF Len(its) > 0 THEN its[1] ELSE None

nowPlaying == nowPlayingOf(items)

\* const playerState = data?.player ?? null
playerStateOf(d) == IF d = <<>> THEN <<>> ELSE d[1].player

playerState == playerStateOf(data)

\* The component reads data.queue and data.player only, never now_playing:
\* the snapshots with now_playing = null give it every queue it can be
\* given.  Polling and dragging do not read data.player either.
Polled == {snap \in InspectApi : snap.now_playing = None /\ snap.player = <<>>}

\* the snapshots of InspectApi with no player
Inspected == {snap \in InspectApi : snap.player = <<>>}

\* None of the command controls reads the order of the up-next list: the
\* snapshots with now_playing = null and the queue <<1, ..., k>> give them
\* every length of the up-next list, a now-playing entry or none, and every
\* player they can be given.
PolledCommands ==
  {snap \in InspectApi :
     /\ snap.now_playing = None
     /\ \A i \in 1..Len(snap.queue) : snap.queue[i] = i}

\* <ClearAllButton show={!!nowPlaying || queue.length > 0} />
show(its, q) == nowPlayingOf(its) # None \/ Len(q) > 0

\* the view returned by Queue: "Server offline" iff errorRef.current is set
ServerOffline == errorRef

\* variant: the remembered error is never cleared
renderErrorRef_Sticky(err, isSuccess, ref) == ref \/ err

\* variant: errorRef.current = error on every render, without the guard
renderErrorRef_Unguarded(err, isSuccess, ref) == err

\* if (error || isSuccess) errorRef.current = error
renderErrorRef(err, isSuccess, ref) == IF err \/ isSuccess THEN err ELSE ref

\* Array.prototype.findIndex by job_id: 0-based, -1 when absent
findIndex(its, id) ==
  IF id \in Range(its) THEN (CHOOSE i \in 1..Len(its) : its[i] = id) - 1 ELSE -1

\* Array.prototype.splice(start, deleteCount), the start index clamped as JS does
spliceStart(len, start) ==
  IF start < 0 THEN Max(len + start, 0) ELSE Min(start, len)

\* array without the element at 0-based index k (0 <= k < length)
removeAt(arr, k) == SubSeq(arr, 1, k) \o SubSeq(arr, k + 2, Len(arr))

\* array with x inserted before 0-based index k (0 <= k <= length)
insertAt(arr, k, x) == SubSeq(arr, 1, k) \o <<x>> \o SubSeq(arr, k + 1, Len(arr))

\* @dnd-kit/sortable arrayMove(array, from, to):
\*   newArray.splice(to < 0 ? newArray.length + to : to, 0,
\*                   newArray.splice(from, 1)[0])
\* applied to a non-empty array
arrayMove(arr, from, to) ==
  LET k     == spliceStart(Len(arr), from)
      kk    == IF k >= Len(arr) THEN Len(arr) - 1 ELSE k
      moved == arr[kk + 1]
      rest  == removeAt(arr, kk)
      t     == IF to < 0 THEN Len(rest) + to ELSE to
  IN insertAt(rest, spliceStart(Len(rest), t), moved)

\* useEffect(..., [items]): the effect runs when the items reference changed.
\* react-query keeps the previous data.queue reference when the fetched queue
\* is structurally equal to it (structural sharing); data?.queue ?? [] yields
\* a fresh reference while data is undefined.
itemsChanged(d, snap) == d = <<>> \/ d[1].queue # snap.queue

\* the mutations that send commands other than Move: commandMutation,
\* cancelMutation, swapMutation, clearMutation (commands.ts) and the mutation
\* of PlayerControls behind handleSkip
Mutations == {"command", "cancel", "swap", "clear", "skip"}

\* track_info.webpage_url of the entry with job_id j: the same video may be
\* enqueued twice, jobs 2k-1 and 2k carry video k
webpage_url(j) == (j + 1) \div 2

\* const webpageUrl = item?.track_info.webpage_url (None for undefined)
webpageUrlOf(its) ==
  IF nowPlayingOf(its) = None THEN None ELSE webpage_url(nowPlayingOf(its))

\* the two Form sources of the repository
Forms == {"form.tsx", "part_003"}

\* the application as mounted, built with Form source f; the effects of the
\* first render have run
Mounted(f) ==
  /\ data = <<>>
  /\ status = "pending"
  /\ error = FALSE
  /\ fetchStatus = "idle"
  /\ failureCount = 0
  /\ errorRef = FALSE
  /\ queue = <<>>
  /\ active = None
  /\ inFlight = 0
  /\ sent = <<>>
  /\ dragEnd = <<>>
  /\ quiet = 0
  /\ pending = [m \in Mutations |-> 0]
  /\ request = <<>>
  /\ settled = <<>>
  /\ submitted = <<>>
  /\ clicked = <<>>
  /\ dialog = FALSE
  /\ visible = FALSE
  /\ isDragging = FALSE
  /\ dragTime = <<>>
  /\ form = f
  /\ earlier = 0
  /\ isPending = FALSE
  /\ toasts = 0
  /\ awaiting = 0
  /\ invalidated = 1
  /\ stale = FALSE

Init == Mounted("form.tsx")

\* the last step handed no request to fetch, delivered no completion, read
\* no form, clicked no dialog button and raised no toast
Quiet ==
  /\ request' = <<>>
  /\ settled' = <<>>
  /\ submitted' = <<>>
  /\ clicked' = <<>>
  /\ toasts' = 0

\* ... and the history query was not invalidated either
Silent == Quiet /\ invalidated' = 0

\* how a request ended for the client: fetch resolved (whatever the HTTP
\* status) or rejected
Outcome(ok) == IF ok THEN "resolved" ELSE "failed"

\* A fetch of the ["queue"] query starts (mount, refetchInterval tick).
\* With no data yet the query goes back to pending and drops its error.
PollStart ==
  /\ fetchStatus = "idle"
  /\ fetchStatus' = "fetching"
  /\ failureCount' = 0
  /\ status' = IF data = <<>> THEN "pending" ELSE status
  /\ error' = IF data = <<>> THEN FALSE ELSE error
  /\ errorRef' = renderErrorRef(error', status' = "success", errorRef)
  /\ sent' = <<>>
  /\ dragEnd' = <<>>
  /\ Silent
  /\ UNCHANGED <<data, queue, active, inFlight, quiet, commandVars, enqueueVars>>
  /\ stale' = FALSE

\* One attempt of the queryFn throws (fetch rejects or !response.ok) and the
\* query retries it.
FetchRetry ==
  /\ fetchStatus = "fetching"
  /\ failureCount < Retry
  /\ failureCount' = failureCount + 1
  /\ sent' = <<>>
  /\ dragEnd' = <<>>
  /\ Silent
  /\ UNCHANGED <<data, status, error, fetchStatus, errorRef, queue, active,
                 inFlight, quiet, commandVars, enqueueVars>>
  /\ stale' = FALSE

\* variant: the first failed attempt already fails the poll (no retry)
PollFailure_NoRetry ==
  /\ fetchStatus = "fetching"
  /\ fetchStatus' = "idle"
  /\ failureCount' = 0
  /\ status' = "error"
  /\ error' = TRUE
  /\ errorRef' = renderErrorRef(error', status' = "success", errorRef)
  /\ active' = None
  /\ quiet' = 0
  /\ sent' = <<>>
  /\ dragEnd' = <<>>
  /\ dialog' = FALSE
  /\ visible' = FALSE
  /\ isDragging' = FALSE
  /\ dragTime' = <<>>
  /\ Silent
  /\ UNCHANGED <<data, queue, inFlight, pending, enqueueVars>>
  /\ stale' = FALSE

\* The last attempt throws: the poll fails.  data is kept, the view becomes
\* "Server offline" and the DndContext is unmounted with it, as are NowPlaying
\* (PlayerProgress loses its state) and ClearAllButton with its dialog.
PollFailure ==
  /\ fetchStatus = "fetching"
  /\ failureCount = Retry
  /\ fetchStatus' = "idle"
  /\ failureCount' = 0
  /\ status' = "error"
  /\ error' = TRUE
  /\ errorRef' = renderErrorRef(error', status' = "success", errorRef)
  /\ active' = None
  /\ quiet' = 0
  /\ sent' = <<>>
  /\ dragEnd' = <<>>
  /\ dialog' = FALSE
  /\ visible' = FALSE
  /\ isDragging' = FALSE
  /\ dragTime' = <<>>
  /\ Silent
  /\ UNCHANGED <<data, queue, inFlight, pending, enqueueVars>>
  /\ stale' = FALSE

\* NowPlaying of now-playing.tsx, rendered by Queue unless the view is
\* "Server offline": its effect on [webpageUrl, queryClient] invalidates the
\* history query when the component mounts and when webpageUrl has changed
\* between two renders.  offline/its: the view before the render, offline2/
\* its2: after it.  The result is the number of invalidations.
NowPlayingEffect(offline, its, offline2, its2) ==
  IF ~offline2 /\ (offline \/ webpageUrlOf(its2) # webpageUrlOf(its))
    THEN 1 ELSE 0

\* The queryFn resolves with snap: data is replaced, the error cleared, and the
\* mirror effect runs when items changed.  An empty mirror unmounts the list.
\* A drag in progress goes on over the re-rendered list: the DndContext keeps
\* its active id also when the dragged entry is no longer rendered.
\* ClearAllButton renders nothing, its dialog included, when show is false;
\* the [playerState] effect of PlayerProgress sets visible with a player.
PollSuccess(snap) ==
  /\ fetchStatus = "fetching"
  /\ fetchStatus' = "idle"
  /\ failureCount' = 0
  /\ status' = "success"
  /\ error' = FALSE
  /\ data' = <<snap>>
  /\ errorRef' = renderErrorRef(error', status' = "success", errorRef)
  /\ queue' = IF itemsChanged(data, snap) THEN UpNext(snap.queue) ELSE queue
  /\ active' = IF queue' = <<>> THEN None ELSE active
  /\ quiet' = Min(quiet + 1, 2)
  /\ sent' = <<>>
  /\ dragEnd' = <<>>
  /\ dialog' = (dialog /\ show(snap.queue, queue'))
  /\ visible' = (visible \/ snap.player # <<>>)
  /\ awaiting' = 0
  /\ Quiet
  /\ invalidated' = NowPlayingEffect(errorRef, items, errorRef', snap.queue)
  /\ stale' = FALSE
  /\ UNCHANGED <<inFlight, pending, isDragging, dragTime, form, earlier,
                 isPending>>

\* A pointer/touch sensor activates on a rendered up-next entry; the gesture
\* lasts until handleDragEnd, and polls may terminate in between.  An open
\* AlertDialog is modal: nothing outside it takes pointer events.
DragStart(j) ==
  /\ active = None
  /\ ~ServerOffline
  /\ ~dialog
  /\ j \in Range(queue)
  /\ active' = j
  /\ quiet' = 0
  /\ sent' = <<>>
  /\ dragEnd' = <<>>
  /\ Silent
  /\ UNCHANGED <<pollVars, queue, inFlight, commandVars, enqueueVars>>
  /\ UNCHANGED stale

\* variant: a Move still outstanding is replaced instead of a second one sent
reorder_Coalesced(jobId, newPos) ==
  /\ inFlight < MaxMoves
  /\ inFlight' = IF inFlight > 0 THEN inFlight ELSE 1
  /\ sent' = <<[job_id |-> jobId, new_pos |-> newPos]>>

\* reorder(jobId, newPos): reorderMutation.mutate sends POST /api/move
reorder(jobId, newPos) ==
  /\ inFlight < MaxMoves
  /\ inFlight' = inFlight + 1
  /\ sent' = <<[job_id |-> jobId, new_pos |-> newPos]>>

\* variant: the active.id !== over.id test is missing
handleDragEnd_NoSelfCheck(over) ==
  /\ active # None
  /\ over \in Range(queue) \cup {None}
  /\ IF over # None
       THEN LET oldIndex == findIndex(queue, active)
                newIndex == findIndex(queue, over)
            IN /\ reorder(active, newIndex)
               /\ queue' = arrayMove(queue, oldIndex, newIndex)
       ELSE /\ sent' = <<>>
            /\ UNCHANGED <<queue, inFlight>>
  /\ dragEnd' = <<[active |-> active, over |-> over]>>
  /\ active' = None
  /\ quiet' = 0
  /\ Silent
  /\ UNCHANGED <<pollVars, commandVars, enqueueVars>>
  /\ UNCHANGED stale

\* variant: the Move carries the index the entry came from
handleDragEnd_OldIndex(over) ==
  /\ active # None
  /\ over \in Range(queue) \cup {None}
  /\ IF over # None /\ active # over
       THEN LET oldIndex == findIndex(queue, active)
                newIndex == findIndex(queue, over)
            IN /\ reorder(active, oldIndex)
               /\ queue' = arrayMove(queue, oldIndex, newIndex)
       ELSE /\ sent' = <<>>
            /\ UNCHANGED <<queue, inFlight>>
  /\ dragEnd' = <<[active |-> active, over |-> over]>>
  /\ active' = None
  /\ quiet' = 0
  /\ Silent
  /\ UNCHANGED <<pollVars, commandVars, enqueueVars>>
  /\ UNCHANGED stale

\* handleDragEnd(event) with event.active.id = active and event.over = over
\* (an entry of the list as rendered now, None when released over no
\* droppable).  The setQueue updater runs once (production build).
handleDragEnd(over) ==
  /\ active # None
  /\ over \in Range(queue) \cup {None}
  /\ IF over # None /\ active # over
       THEN LET oldIndex == findIndex(queue, active)
                newIndex == findIndex(queue, over)
            IN /\ reorder(active, newIndex)
               /\ queue' = arrayMove(queue, oldIndex, newIndex)
       ELSE /\ sent' = <<>>
            /\ UNCHANGED <<queue, inFlight>>
  /\ dragEnd' = <<[active |-> active, over |-> over]>>
  /\ active' = None
  /\ quiet' = 0
  /\ Silent
  /\ UNCHANGED <<pollVars, commandVars, enqueueVars>>
  /\ UNCHANGED stale

\* queryClient.invalidateQueries({queryKey: ["queue"]}): refetch at once; a
\* fetch in flight is cancelled and restarted when data exists, else kept.
invalidateQueries ==
  IF fetchStatus = "idle"
    THEN /\ fetchStatus' = "fetching"
         /\ failureCount' = 0
         /\ status' = IF data = <<>> THEN "pending" ELSE status
         /\ error' = IF data = <<>> THEN FALSE ELSE error
         /\ errorRef' = renderErrorRef(error', status' = "success", errorRef)
         /\ UNCHANGED data
    ELSE /\ failureCount' = IF data # <<>> THEN 0 ELSE failureCount
         /\ UNCHANGED <<data, status, error, fetchStatus, errorRef>>

\* Whether the fetch in flight after a request has completed was issued
\* before that completion.  invalidates: the completion calls
\* invalidateQueries, which leaves no earlier fetch running unless there is
\* no data yet; applied: the server may have applied the request.
staleAfter(invalidates, applied) ==
  IF invalidates /\ (fetchStatus = "idle" \/ data # <<>>)
    THEN FALSE
    ELSE stale \/ (applied /\ fetchStatus = "fetching")

\* The mutationFn of reorderMutation resumes after await fetch: when fetch
\* resolved it goes on to invalidate the queue query, when it rejected it
\* throws first.
reorderResumes(ok) ==
  /\ inFlight > 0
  /\ inFlight' = inFlight - 1
  /\ IF ok THEN invalidateQueries ELSE UNCHANGED pollVars
  /\ sent' = <<>>
  /\ dragEnd' = <<>>
  /\ request' = <<>>
  /\ submitted' = <<>>
  /\ clicked' = <<>>
  /\ toasts' = 0
  /\ UNCHANGED <<queue, active, quiet, commandVars, enqueueVars>>
  /\ invalidated' = 0
  /\ stale' = staleAfter(ok, ok)

\* A /api/move request settles.
MoveSettled(ok) == reorderResumes(ok) /\ settled' = <<>>

\* A /api/move request settles, with the completion recorded in settled.
MoveCompleted(ok) ==
  reorderResumes(ok) /\ settled' = <<[mutation |-> "reorder", outcome |-> Outcome(ok)]>>

\* ---- the command mutations of lib/commands.ts and their controls ----

\* command requests other than Move sent and not yet settled
InFlightCommands ==
  pending["command"] + pending["cancel"] + pending["swap"] + pending["clear"]
    + pending["skip"]

\* useMutation(...).mutate(variables) of mutation m: the mutationFn runs at
\* once and hands one request to fetch
mutate(m, path, body) ==
  /\ InFlightCommands < MaxCommands
  /\ pending' = [pending EXCEPT ![m] = @ + 1]
  /\ request' = <<[mutation |-> m, path |-> path, body |-> body]>>

\* commandMutation.mutate(command): body: JSON.stringify(command)
execute_command(command) ==
  mutate("command", <<"/api/execute_command">>, command)

seekForward == execute_command(<<"SeekForward">>)

seekRewind == execute_command(<<"SeekRewind">>)

togglePause == execute_command(<<"TogglePause">>)

seekTo(time) == execute_command(<<"SeekTo", time>>)

mute == execute_command(<<"Mute">>)

fullVolume == execute_command(<<"FullVolume">>)

cancel(jobId) == mutate("cancel", <<"/api/cancel", jobId>>, <<>>)

swap(jobId) == mutate("swap", <<"/api/swap", jobId>>, <<>>)

clear == mutate("clear", <<"/api/clear">>, <<>>)

\* what a gesture on a control leaves alone
ControlFrame ==
  /\ sent' = <<>>
  /\ dragEnd' = <<>>
  /\ settled' = <<>>
  /\ submitted' = <<>>
  /\ toasts' = 0
  /\ quiet' = 0
  /\ UNCHANGED <<pollVars, queue, active, inFlight, enqueueVars>>
  /\ invalidated' = 0
  /\ UNCHANGED stale

\* the controls are rendered and take pointer events: no modal dialog is
\* open and no entry of the list is being dragged
Interactive == ~ServerOffline /\ ~dialog /\ active = None

\* variant: the three buttons are disabled as the skip button is
\* (disabled={!jobId})
PlayerControlsClick_NoPlayer(button) ==
  /\ Interactive
  /\ nowPlaying # None
  /\ CASE button = "rewind" -> seekRewind
       [] button = "pause" -> togglePause
       [] button = "forward" -> seekForward
  /\ ControlFrame
  /\ clicked' = <<>>
  /\ UNCHANGED <<dialog, visible, isDragging, dragTime>>

\* a click on the rewind, pause or forward button of PlayerControls
\* (disabled={!jobId || !playerState})
PlayerControlsClick(button) ==
  /\ Interactive
  /\ nowPlaying # None
  /\ playerState # <<>>
  /\ CASE button = "rewind" -> seekRewind
       [] button = "pause" -> togglePause
       [] button = "forward" -> seekForward
  /\ ControlFrame
  /\ clicked' = <<>>
  /\ UNCHANGED <<dialog, visible, isDragging, dragTime>>

\* handleSkip: the skip button of PlayerControls (disabled={!jobId}) cancels
\* the now-playing entry through the mutation of PlayerControls
handleSkip ==
  /\ Interactive
  /\ nowPlaying # None
  /\ mutate("skip", <<"/api/cancel", nowPlaying>>, <<>>)
  /\ ControlFrame
  /\ clicked' = <<>>
  /\ UNCHANGED <<dialog, visible, isDragging, dragTime>>

\* const isMuted = playerState ? playerState.volume === 0 : false
isMuted == playerState # <<>> /\ playerState[1].volume = 0

\* handleVolume: the MuteButton inside PlayerProgress, shown while visible
handleVolume ==
  /\ Interactive
  /\ visible
  /\ IF isMuted THEN fullVolume ELSE mute
  /\ ControlFrame
  /\ clicked' = <<>>
  /\ UNCHANGED <<dialog, visible, isDragging, dragTime>>

\* updateTimeFromPointer: Math.round(percent * playerState.length) with
\* percent in [0, 1]
PointerTimes == IF playerState = <<>> THEN {} ELSE 0..playerState[1].length

\* handlePointerDown on the progress bar, the pointer at time t
handlePointerDown(t) ==
  /\ Interactive
  /\ visible
  /\ playerState # <<>>
  /\ t \in PointerTimes
  /\ isDragging' = TRUE
  /\ dragTime' = <<t>>
  /\ request' = <<>>
  /\ ControlFrame
  /\ clicked' = <<>>
  /\ UNCHANGED <<pending, dialog, visible>>

\* handlePointerMove to time t (the bar holds the pointer capture)
handlePointerMove(t) ==
  /\ ~ServerOffline
  /\ isDragging
  /\ playerState # <<>>
  /\ t \in PointerTimes
  /\ dragTime' = <<t>>
  /\ request' = <<>>
  /\ ControlFrame
  /\ clicked' = <<>>
  /\ UNCHANGED <<pending, dialog, visible, isDragging>>

\* handlePointerUp of a drag on the progress bar: seekTo(dragTime)
handlePointerUp ==
  /\ ~ServerOffline
  /\ isDragging
  /\ playerState # <<>>
  /\ IF dragTime # <<>>
       THEN seekTo(dragTime[1])
       ELSE request' = <<>> /\ UNCHANGED pending
  /\ isDragging' = FALSE
  /\ dragTime' = <<>>
  /\ ControlFrame
  /\ clicked' = <<>>
  /\ UNCHANGED <<dialog, visible>>

\* the timeout of the [playerState] effect of PlayerProgress: 300 ms after
\* the player went away the progress bar is hidden
HideProgress ==
  /\ ~ServerOffline
  /\ visible
  /\ playerState = <<>>
  /\ visible' = FALSE
  /\ sent' = <<>>
  /\ dragEnd' = <<>>
  /\ Silent
  /\ UNCHANGED <<pollVars, queue, active, inFlight, quiet, pending, dialog,
                 isDragging, dragTime, enqueueVars>>
  /\ UNCHANGED stale

\* "Play now" of the dropdown of rendered up-next entry j: item && swap(job_id)
PlayNow(j) ==
  /\ Interactive
  /\ j \in Range(queue)
  /\ swap(j)
  /\ ControlFrame
  /\ clicked' = <<>>
  /\ UNCHANGED <<dialog, visible, isDragging, dragTime>>

\* "Remove item" of the dropdown of rendered up-next entry j:
\* item && cancel(job_id)
RemoveItem(j) ==
  /\ Interactive
  /\ j \in Range(queue)
  /\ cancel(j)
  /\ ControlFrame
  /\ clicked' = <<>>
  /\ UNCHANGED <<dialog, visible, isDragging, dragTime>>

\* a click on AlertDialogTrigger, which ClearAllButton renders only with show
OpenDialog ==
  /\ Interactive
  /\ show(items, queue)
  /\ dialog' = TRUE
  /\ request' = <<>>
  /\ ControlFrame
  /\ clicked' = <<"AlertDialogTrigger">>
  /\ UNCHANGED <<pending, visible, isDragging, dragTime>>

\* variant: AlertDialogCancel carries the onClick of AlertDialogAction
CancelDialog_Clears ==
  /\ dialog
  /\ dialog' = FALSE
  /\ clear
  /\ ControlFrame
  /\ clicked' = <<"AlertDialogCancel">>
  /\ UNCHANGED <<visible, isDragging, dragTime>>

\* a click on AlertDialogCancel
CancelDialog ==
  /\ dialog
  /\ dialog' = FALSE
  /\ request' = <<>>
  /\ ControlFrame
  /\ clicked' = <<"AlertDialogCancel">>
  /\ UNCHANGED <<pending, visible, isDragging, dragTime>>

\* a click on AlertDialogAction: onClick={() => clear()}, and the dialog closes
ConfirmDialog ==
  /\ dialog
  /\ clear
  /\ dialog' = FALSE
  /\ ControlFrame
  /\ clicked' = <<"AlertDialogAction">>
  /\ UNCHANGED <<visible, isDragging, dragTime>>

\* variant: a failed command is shown as a failure of the server
CommandSettled_Offline(m, ok) ==
  /\ pending[m] > 0
  /\ pending' = [pending EXCEPT ![m] = @ - 1]
  /\ IF ok
       THEN IF m = "command" THEN invalidateQueries ELSE UNCHANGED pollVars
       ELSE errorRef' = TRUE /\ UNCHANGED <<data, status, error, fetchStatus, failureCount>>
  /\ sent' = <<>>
  /\ dragEnd' = <<>>
  /\ request' = <<>>
  /\ settled' = <<[mutation |-> m, outcome |-> Outcome(ok)]>>
  /\ submitted' = <<>>
  /\ clicked' = <<>>
  /\ toasts' = 0
  /\ UNCHANGED <<queue, active, inFlight, quiet, dialog, visible, isDragging,
                 dragTime, enqueueVars>>
  /\ invalidated' = 0
  /\ stale' = staleAfter(m = "command" /\ ok, ok)

\* variant: commandMutation does not invalidate the queue query
CommandSettled_NoInvalidate(m, ok) ==
  /\ pending[m] > 0
  /\ pending' = [pending EXCEPT ![m] = @ - 1]
  /\ UNCHANGED pollVars
  /\ sent' = <<>>
  /\ dragEnd' = <<>>
  /\ request' = <<>>
  /\ settled' = <<[mutation |-> m, outcome |-> Outcome(ok)]>>
  /\ submitted' = <<>>
  /\ clicked' = <<>>
  /\ toasts' = 0
  /\ UNCHANGED <<queue, active, inFlight, quiet, dialog, visible, isDragging,
                 dragTime, enqueueVars>>
  /\ invalidated' = 0
  /\ stale' = staleAfter(FALSE, ok)

\* variant: a request that failed is sent again (retry: 1)
CommandSettled_Retry(m, ok) ==
  /\ pending[m] > 0
  /\ pending' = IF ok THEN [pending EXCEPT ![m] = @ - 1] ELSE pending
  /\ IF m = "command" /\ ok THEN invalidateQueries ELSE UNCHANGED pollVars
  /\ sent' = <<>>
  /\ dragEnd' = <<>>
  /\ request' = IF ok THEN <<>> ELSE <<[mutation |-> m, path |-> <<>>, body |-> <<>>]>>
  /\ settled' = <<[mutation |-> m, outcome |-> Outcome(ok)]>>
  /\ submitted' = <<>>
  /\ clicked' = <<>>
  /\ toasts' = 0
  /\ UNCHANGED <<queue, active, inFlight, quiet, dialog, visible, isDragging,
                 dragTime, enqueueVars>>
  /\ invalidated' = 0
  /\ stale' = staleAfter(m = "command" /\ ok, ok)

\* A request of mutation m settles.  commandMutation goes on to invalidate
\* the queue query when fetch resolved and throws before that when it
\* rejected; the other mutations only return the promise of fetch.
CommandSettled(m, ok) ==
  /\ pending[m] > 0
  /\ pending' = [pending EXCEPT ![m] = @ - 1]
  /\ IF m = "command" /\ ok THEN invalidateQueries ELSE UNCHANGED pollVars
  /\ sent' = <<>>
  /\ dragEnd' = <<>>
  /\ request' = <<>>
  /\ settled' = <<[mutation |-> m, outcome |-> Outcome(ok)]>>
  /\ submitted' = <<>>
  /\ clicked' = <<>>
  /\ toasts' = 0
  /\ UNCHANGED <<queue, active, inFlight, quiet, dialog, visible, isDragging,
                 dragTime, enqueueVars>>
  /\ invalidated' = 0
  /\ stale' = staleAfter(m = "command" /\ ok, ok)

\* ---- the enqueue mutation of App and the Form ----

\* the URLs the user types: the input may also be submitted empty
Urls == {"https://example.com/v=abc", ""}

\* the values of the quality Select: a tier is written as the sequence of its
\* name and, for a split tier, the suffix "_s"
SelectItems(f) ==
  IF f = "form.tsx"
    THEN {<<"sd">>, <<"hd">>, <<"fhd">>, <<"sd", "_s">>}
    ELSE {<<"sd">>, <<"hd">>, <<"fhd">>,
          <<"sd", "_s">>, <<"hd", "_s">>, <<"fhd", "_s">>}

QUALITY_TO_MIN_HEIGHT(f) ==
  IF f = "form.tsx"
    THEN (<<"sd">> :> 480) @@ (<<"hd">> :> 720) @@ (<<"fhd">> :> 1080)
           @@ (<<"sd", "_s">> :> 480)
    ELSE (<<"sd">> :> 480) @@ (<<"hd">> :> 720) @@ (<<"fhd">> :> 1080)
           @@ (<<"sd", "_s">> :> 480) @@ (<<"hd", "_s">> :> 720)
           @@ (<<"fhd", "_s">> :> 1080)

\* variant: both Forms test quality === "sd_s"
video_type_SdOnly(f, quality) ==
  IF quality = <<"sd", "_s">> THEN "split" ELSE "merged"

\* form.tsx: quality === "sd_s" ? "split" : "merged"
\* part_003: quality.endsWith("_s") ? "split" : "merged"
video_type(f, quality) ==
  IF f = "form.tsx"
    THEN IF quality = <<"sd", "_s">> THEN "split" ELSE "merged"
    ELSE IF quality[Len(quality)] = "_s" THEN "split" ELSE "merged"

\* const fragment = video_type === "merged" ? "queue_merged" : "queue_split"
fragment(videoType) ==
  IF videoType = "merged" THEN "/api/queue_merged" ELSE "/api/queue_split"

\* enqueue requests sent and not yet settled
InFlightEnqueues == earlier + (IF isPending THEN 1 ELSE 0)

\* mutation.mutate([video_type, url, min_height]) of App: the mutationFn
\* posts {url, height: min_height} at once; the observer follows this request
enqueue(videoType, url, min_height) ==
  /\ InFlightEnqueues + awaiting < MaxEnqueues
  /\ earlier' = InFlightEnqueues
  /\ isPending' = TRUE
  /\ request' = <<[mutation |-> "enqueue",
                   path |-> <<fragment(videoType)>>,
                   body |-> <<[url |-> url, height |-> min_height]>>]>>

\* handleSubmit of the Form, the input holding url and the Select quality;
\* the Form is rendered whatever the Queue shows
handleSubmit(quality, url) ==
  /\ ~dialog
  /\ quality \in SelectItems(form)
  /\ submitted' = <<[quality |-> quality, url |-> url]>>
  /\ enqueue(video_type(form, quality), url, QUALITY_TO_MIN_HEIGHT(form)[quality])
  /\ sent' = <<>>
  /\ dragEnd' = <<>>
  /\ settled' = <<>>
  /\ clicked' = <<>>
  /\ toasts' = 0
  /\ quiet' = 0
  /\ UNCHANGED <<pollVars, queue, active, inFlight, commandVars, form, awaiting>>
  /\ invalidated' = 0
  /\ UNCHANGED stale

\* variant: the mutation has no onError
EnqueueSettled_NoOnError(latest, outcome) ==
  /\ IF latest
       THEN isPending /\ isPending' = FALSE /\ UNCHANGED earlier
       ELSE earlier > 0 /\ earlier' = earlier - 1 /\ UNCHANGED isPending
  /\ IF outcome = "accepted"
       THEN invalidateQueries /\ toasts' = 0
       ELSE UNCHANGED pollVars /\ toasts' = 0
  /\ awaiting' = awaiting + 1
  /\ settled' = <<[mutation |-> "enqueue", outcome |-> outcome]>>
  /\ sent' = <<>>
  /\ dragEnd' = <<>>
  /\ request' = <<>>
  /\ submitted' = <<>>
  /\ clicked' = <<>>
  /\ UNCHANGED <<queue, active, inFlight, quiet, commandVars, form>>
  /\ invalidated' = 0
  /\ stale' = staleAfter(outcome = "accepted", FALSE)

\* An enqueue request settles: "accepted" when the response carries no error
\* (onSuccess invalidates the queue query), "rejected" when it carries one and
\* "failed" when fetch or resp.json() rejects (the mutationFn throws, onError
\* raises a toast).  latest: it is the request the observer follows.
EnqueueSettled(latest, outcome) ==
  /\ IF latest
       THEN isPending /\ isPending' = FALSE /\ UNCHANGED earlier
       ELSE earlier > 0 /\ earlier' = earlier - 1 /\ UNCHANGED isPending
  /\ IF outcome = "accepted"
       THEN invalidateQueries /\ toasts' = 0
       ELSE UNCHANGED pollVars /\ toasts' = 1
  /\ awaiting' = awaiting + 1
  /\ settled' = <<[mutation |-> "enqueue", outcome |-> outcome]>>
  /\ sent' = <<>>
  /\ dragEnd' = <<>>
  /\ request' = <<>>
  /\ submitted' = <<>>
  /\ clicked' = <<>>
  /\ UNCHANGED <<queue, active, inFlight, quiet, commandVars, form>>
  /\ invalidated' = 0
  /\ stale' = staleAfter(outcome = "accepted", FALSE)

\* variant: the placeholder stays until the next successful poll
QueuePlaceholders_UntilPoll ==
  IF /\ ~ServerOffline
     /\ Len(queue) # 0 \/ (nowPlaying # None /\ isPending)
     /\ isPending \/ awaiting > 0
    THEN 1 ELSE 0

\* {isMutationPending && <QueueListItem item={null} />} inside the Up Next
\* section, rendered with queue.length !== 0 || (!!nowPlaying && isMutationPending)
QueuePlaceholders ==
  IF /\ ~ServerOffline
     /\ Len(queue) # 0 \/ (nowPlaying # None /\ isPending)
     /\ isPending
    THEN 1 ELSE 0

\* NowPlaying with no item: "Adding to queue..." while isMutationPending
NowPlayingPlaceholders ==
  IF ~ServerOffline /\ nowPlaying = None /\ isPending THEN 1 ELSE 0

\* the enqueue placeholders rendered
Placeholders == QueuePlaceholders + NowPlayingPlaceholders

Next ==
  \/ PollStart
  \/ FetchRetry
  \/ PollFailure
  \/ \E snap \in Polled : PollSuccess(snap)
  \/ \E j \in Jobs : DragStart(j)
  \/ \E over \in Jobs \cup {None} : handleDragEnd(over)
  \/ \E ok \in BOOLEAN : MoveSettled(ok)

Spec == Init /\ [][Next]_vars

\* The same program polled with every queue and now_playing of InspectApi.
NextInspect ==
  \/ PollStart
  \/ FetchRetry
  \/ PollFailure
  \/ \E snap \in Inspected : PollSuccess(snap)
  \/ \E j \in Jobs : DragStart(j)
  \/ \E over \in Jobs \cup {None} : handleDragEnd(over)
  \/ \E ok \in BOOLEAN : MoveSettled(ok)

SpecInspect == Init /\ [][NextInspect]_vars

\* The program with its player controls and the drag of the list, polled
\* with PolledCommands.
NextTransport ==
  \/ PollStart
  \/ FetchRetry
  \/ PollFailure
  \/ \E snap \in PolledCommands : PollSuccess(snap)
  \/ \E j \in Jobs : DragStart(j)
  \/ \E over \in Jobs \cup {None} : handleDragEnd(over)
  \/ \E ok \in BOOLEAN : MoveCompleted(ok)
  \/ \E button \in {"rewind", "pause", "forward"} : PlayerControlsClick(button)
  \/ handleVolume
  \/ \E t \in 0..MaxLength : handlePointerDown(t)
  \/ \E t \in 0..MaxLength : handlePointerMove(t)
  \/ handlePointerUp
  \/ HideProgress
  \/ \E ok \in BOOLEAN : CommandSettled("command", ok)

SpecTransport == Init /\ [][NextTransport]_vars

\* The program with its queue-edit controls other than the drag, polled with
\* PolledCommands.
NextEdits ==
  \/ PollStart
  \/ FetchRetry
  \/ PollFailure
  \/ \E snap \in PolledCommands : PollSuccess(snap)
  \/ handleSkip
  \/ \E j \in Jobs : PlayNow(j)
  \/ \E j \in Jobs : RemoveItem(j)
  \/ OpenDialog
  \/ CancelDialog
  \/ ConfirmDialog
  \/ \E m \in Mutations \ {"command"}, ok \in BOOLEAN : CommandSettled(m, ok)

SpecEdits == Init /\ [][NextEdits]_vars

\* The program with all its command controls, polled with PolledCommands.
NextCommands ==
  \/ PollStart
  \/ FetchRetry
  \/ PollFailure
  \/ \E snap \in PolledCommands : PollSuccess(snap)
  \/ \E j \in Jobs : DragStart(j)
  \/ \E over \in Jobs \cup {None} : handleDragEnd(over)
  \/ \E ok \in BOOLEAN : MoveCompleted(ok)
  \/ \E button \in {"rewind", "pause", "forward"} : PlayerControlsClick(button)
  \/ handleSkip
  \/ handleVolume
  \/ \E t \in 0..MaxLength : handlePointerDown(t)
  \/ \E t \in 0..MaxLength : handlePointerMove(t)
  \/ handlePointerUp
  \/ HideProgress
  \/ \E j \in Jobs : PlayNow(j)
  \/ \E j \in Jobs : RemoveItem(j)
  \/ OpenDialog
  \/ CancelDialog
  \/ ConfirmDialog
  \/ \E m \in Mutations, ok \in BOOLEAN : CommandSettled(m, ok)

SpecCommands == Init /\ [][NextCommands]_vars

\* The program with either Form and the enqueue mutation, polled with Polled.
NextEnqueue ==
  \/ PollStart
  \/ FetchRetry
  \/ PollFailure
  \/ \E snap \in Polled : PollSuccess(snap)
  \/ \E quality \in SelectItems("part_003"), url \in Urls :
       handleSubmit(quality, url)
  \/ \E latest \in BOOLEAN, outcome \in {"accepted", "rejected", "failed"} :
       EnqueueSettled(latest, outcome)

SpecEnqueue == (\E f \in Forms : Mounted(f)) /\ [][NextEnqueue]_vars

\* Polling, dragging and enqueueing together, with the scheduling the
\* runtime gives: the refetchInterval timer keeps starting fetches, and every
\* fetch, of the poller or of a mutation, comes to an end.
NextSettle ==
  \/ PollStart
  \/ FetchRetry
  \/ PollFailure
  \/ \E snap \in Polled : PollSuccess(snap)
  \/ \E j \in Jobs : DragStart(j)
  \/ \E over \in Jobs \cup {None} : handleDragEnd(over)
  \/ \E ok \in BOOLEAN : MoveSettled(ok)
  \/ \E quality \in SelectItems("form.tsx"), url \in Urls :
       handleSubmit(quality, url)
  \/ \E latest \in BOOLEAN, outcome \in {"accepted", "rejected", "failed"} :
       EnqueueSettled(latest, outcome)

SpecSettle ==
  /\ Init
  /\ [][NextSettle]_vars
  /\ WF_vars(PollStart)
  /\ WF_vars(\E snap \in Polled : PollSuccess(snap))
  /\ WF_vars(\E ok \in BOOLEAN : MoveSettled(ok))
  /\ WF_vars(\E latest \in BOOLEAN, outcome \in {"accepted", "rejected", "failed"} :
               EnqueueSettled(latest, outcome))

TypeOK ==
  /\ data = <<>> \/ (Len(data) = 1 /\ data[1] \in InspectApi)
  /\ status \in {"pending", "success", "error"}
  /\ fetchStatus \in {"idle", "fetching"}
  /\ failureCount \in 0..Retry
  /\ queue \in DistinctSeqs(Jobs)
  /\ active \in Jobs \cup {None}
  /\ inFlight \in 0..MaxMoves
  /\ Len(sent) <= 1
  /\ Len(dragEnd) <= 1
  /\ quiet \in 0..2
  /\ pending \in [Mutations -> 0..MaxCommands]
  /\ Len(request) <= 1
  /\ Len(settled) <= 1
  /\ Len(submitted) <= 1
  /\ Len(clicked) <= 1
  /\ invalidated \in 0..1
  /\ stale \in BOOLEAN
  /\ dialog \in BOOLEAN
  /\ visible \in BOOLEAN
  /\ isDragging \in BOOLEAN
  /\ dragTime = <<>> \/ (Len(dragTime) = 1 /\ dragTime[1] \in 0..MaxLength)
  /\ form \in Forms
  /\ earlier \in 0..MaxEnqueues
  /\ isPending \in BOOLEAN
  /\ toasts \in 0..1
  /\ awaiting \in 0..MaxEnqueues

\* ---- steps, as seen in a pair of states ----
\* a poll terminates with a Snapshot
PollSuccessStep ==
  fetchStatus = "fetching" /\ fetchStatus' = "idle" /\ status' = "success"

\* a poll terminates with an error
PollFailureStep ==
  fetchStatus = "fetching" /\ fetchStatus' = "idle" /\ status' = "error"

\* one request of a poll fails (retried or not)
FailedAttemptStep == failureCount' = failureCount + 1 \/ PollFailureStep

\* a drag gesture is released
DragEndStep == dragEnd' # <<>>

\* a request of a mutation completes
SettleStep == settled' # <<>>

\* the Form is submitted
SubmitStep == submitted' # <<>>

\* ---- claims ----

\* C1: for Snapshots S1 then S2 fetched successfully one after the other with
\* no user action in between, the rendered up-next order after S2 is S2's
\* up-next order: no permutation of earlier local state is left.
C1_NoResidualPermutation == quiet >= 2 => queue = UpNext(items)

\* C2: once a drag release has left the rendered order locally permuted
\* (PendingMove), the first Snapshot fetched successfully afterwards
\* overwrites the mirror whatever it contains: the rendered up-next order
\* becomes that Snapshot's.
C2_AcceptedUnconditionally ==
  [][(PollSuccessStep /\ queue # UpNext(items)) => queue' = UpNext(items')]_vars

\* C3: for every accepted Snapshot the rendered now-playing entry is the
\* Snapshot's now_playing field and the rendered up-next list is the whole
\* of the Snapshot's queue sequence, in the same order.
C3_RenderedFromSnapshot ==
  [][PollSuccessStep =>
       /\ nowPlaying' = data'[1].now_playing
       /\ queue' = data'[1].queue]_vars

\* ---- what the claims expect of a drag ----
\* 0-based position of entry x in a list without repetition
PositionOf(list, x) == Cardinality({i \in 1..Len(list) : \E k \in i + 1..Len(list) : list[k] = x})

\* list with entry x taken out and put back at 0-based position k
MovedTo(list, x, k) ==
  LET others == SelectSeq(list, LAMBDA y : y # x)
  IN [i \in 1..Len(list) |->
        IF i = k + 1 THEN x ELSE IF i <= k THEN others[i] ELSE others[i - 1]]

\* the release just delivered
Released == dragEnd'[1]

\* C4: a drag released on the entry's own position, or on no drop target,
\* sends no Move and leaves the rendered order unchanged.
C4_DragIdempotence ==
  [][(DragEndStep /\ Released.over \in {None, Released.active}) =>
       (sent' = <<>> /\ inFlight' = inFlight /\ queue' = queue)]_vars

\* a drag was just released on its own entry of a list of two or more
C4_Witness ==
  /\ dragEnd # <<>>
  /\ dragEnd[1].over = dragEnd[1].active
  /\ Len(queue) >= 2
  /\ sent = <<>>

C6_MoveIndexValid ==
  [][sent' # <<>> =>
       /\ sent'[1].new_pos \in 0..(Len(queue) - 1)
       /\ sent'[1].job_id \in Range(queue)]_vars

\* C7 (as claimed): while a Move is outstanding and its permutation is still
\* the rendered order, a further drag sends no further Move.
C7_OnlyLatestMoveDispatched ==
  [][sent' # <<>> => ~(inFlight > 0 /\ queue # UpNext(items))]_vars

\* C7 (amended): every drag released on another entry sends its own Move at
\* once, also while earlier Moves are outstanding: the requests outstanding
\* grow by one and the request carries this release's entry and target.
C7_EachDragDispatches ==
  [][(DragEndStep /\ Released.over \notin {None, Released.active}) =>
       /\ inFlight' = inFlight + 1
       /\ Len(sent') = 1
       /\ sent'[1].job_id = Released.active
       /\ queue[sent'[1].new_pos + 1] = Released.over]_vars

\* a second Move was just sent while the first is still outstanding
C7_Witness == dragEnd # <<>> /\ sent # <<>> /\ inFlight >= 2

\* C8: with a Snapshot displayed, up to three failed requests in a row never
\* bring up "Server offline" and leave the Snapshot and the rendered order as
\* they are, and the success that follows shows the normal view.
C8_ThreeFailuresNotOffline ==
  [][/\ (/\ status = "success"
         /\ ~ServerOffline
         /\ failureCount < 3
         /\ FailedAttemptStep)
        => (~ServerOffline' /\ data' = data /\ queue' = queue /\ status' = "success")
     /\ (status = "success" /\ ~ServerOffline /\ PollSuccessStep) => ~ServerOffline']_vars

\* three requests of a poll have failed and the Snapshot is still displayed
C8_Witness ==
  /\ status = "success"
  /\ fetchStatus = "fetching"
  /\ failureCount = 3
  /\ ~ServerOffline
  /\ data # <<>>

C10_FlagChangesOnTerminalOutcome ==
  [][/\ errorRef' # errorRef => (PollSuccessStep \/ PollFailureStep)
     /\ PollFailureStep => errorRef'
     /\ PollSuccessStep => ~errorRef']_vars

\* a refetch is running with the query's own error reset, still shown offline
C10_Witness ==
  /\ errorRef
  /\ fetchStatus = "fetching"
  /\ status = "pending"
  /\ ~error

\* ---- what the claims expect of a command ----
\* the completion just delivered
Completed == settled'[1]

\* the request just handed to fetch
Requested == request'[1]

\* a fetch of the Snapshot is running after the step, none of its attempts
\* made yet
RepollForced == fetchStatus' = "fetching" /\ failureCount' = 0

\* the command bodies of the dispatcher's transport vocabulary
TransportCommands ==
  {<<"SeekForward">>, <<"SeekRewind">>, <<"TogglePause">>, <<"Mute">>,
   <<"FullVolume">>} \cup {<<"SeekTo", t>> : t \in 0..MaxLength}

\* command requests of every kind sent and not yet settled
RequestsInFlight == inFlight + InFlightCommands

\* C11: every transport command and every Move is handed to fetch as one
\* request in the step of its gesture, and when such a request completes
\* successfully a fetch of the Snapshot is started in that same step.
C11_SuccessForcesRepoll ==
  [][/\ request' # <<>> =>
          /\ Len(request') = 1
          /\ Requested.mutation = "command"
          /\ Requested.path = <<"/api/execute_command">>
          /\ Requested.body \in TransportCommands
          /\ pending'["command"] = pending["command"] + 1
          /\ sent' = <<>> /\ inFlight' = inFlight
     /\ sent' # <<>> =>
          /\ Len(sent') = 1
          /\ inFlight' = inFlight + 1
          /\ request' = <<>> /\ pending' = pending
     /\ (/\ SettleStep
         /\ Completed.mutation \in {"command", "reorder"}
         /\ Completed.outcome = "resolved") => RepollForced]_vars

\* a transport command has just completed successfully while the query was
\* idle, and the Snapshot is being fetched again
C11_Witness ==
  /\ settled = <<[mutation |-> "command", outcome |-> "resolved"]>>
  /\ fetchStatus = "fetching"
  /\ failureCount = 0
  /\ status = "success"

\* C12: a transport command or Move whose request fails at transport level
\* forces a re-poll when it completes, as a successful one does.
C12_FailureForcesRepoll ==
  [][(/\ SettleStep
      /\ Completed.mutation \in {"command", "reorder"}
      /\ Completed.outcome = "failed") => RepollForced]_vars

\* C13: Cancel, Promote and ClearAll each force a re-poll when their request
\* completes.
C13_EditsForceRepoll ==
  [][(/\ SettleStep
      /\ Completed.mutation \in {"cancel", "skip", "swap", "clear"})
       => RepollForced]_vars

\* C14: a step hands at most one command request to fetch, every request
\* counted in flight was handed to fetch in the step that dispatched it (none
\* is held back), and only a gesture sends: not a completion, failed or not,
\* and not a step of the poller.
C14_NoQueueNoRetry ==
  [][/\ Len(sent') + Len(request') <= 1
     /\ RequestsInFlight' =
          RequestsInFlight + Len(sent') + Len(request') - Len(settled')
     /\ (sent' # <<>> \/ request' # <<>>) =>
          (settled' = <<>> /\ pollVars' = pollVars)]_vars

\* a command has just failed, nothing is in flight and nothing was sent again
C14_Witness ==
  /\ settled # <<>>
  /\ settled[1].outcome = "failed"
  /\ RequestsInFlight = 0
  /\ request = <<>>
  /\ sent = <<>>

\* the step hands a ClearAll request to fetch
ClearSent == request' # <<>> /\ Requested.mutation = "clear"

\* C15: a ClearAll request is sent only by the confirming action of the open
\* dialog, and no other step puts one in flight; choosing Cancel closes the
\* dialog and sends nothing; the trigger is clicked only while something is
\* now playing or the up-next list is non-empty, and opening sends nothing.
C15_ClearOnlyConfirmed ==
  [][/\ ClearSent =>
          /\ dialog
          /\ clicked' = <<"AlertDialogAction">>
          /\ Requested.path = <<"/api/clear">>
          /\ pending'["clear"] = pending["clear"] + 1
     /\ ~ClearSent => pending'["clear"] <= pending["clear"]
     /\ clicked' = <<"AlertDialogCancel">> =>
          /\ dialog /\ ~dialog'
          /\ request' = <<>> /\ pending' = pending
     /\ clicked' = <<"AlertDialogTrigger">> =>
          /\ ~ServerOffline
          /\ nowPlaying # None \/ Len(queue) > 0
          /\ dialog'
          /\ request' = <<>> /\ pending' = pending
     /\ (~dialog /\ dialog') => clicked' = <<"AlertDialogTrigger">>]_vars

\* the confirming action was just chosen: the dialog is closed and one
\* ClearAll request is in flight
C15_Witness ==
  /\ clicked = <<"AlertDialogAction">>
  /\ request # <<>>
  /\ request[1].mutation = "clear"
  /\ ~dialog
  /\ pending["clear"] = 1

\* ---- what the claims expect of an enqueue ----
\* C16: an enqueue request forces a re-poll when it completes, whatever its
\* outcome: accepted, rejected with an error payload, or failed.
C16_EnqueueForcesRepoll ==
  [][(SettleStep /\ Completed.mutation = "enqueue") => RepollForced]_vars

\* C17: the completion of a rejected enqueue request raises exactly one
\* notification and sends nothing; an accepted one raises none; a
\* notification is raised by nothing but a submission that did not succeed,
\* and an enqueue request is sent by nothing but a submission.
C17_RejectionNotifiedOnce ==
  [][/\ (/\ SettleStep
         /\ Completed.mutation = "enqueue"
         /\ Completed.outcome = "rejected")
        => /\ toasts' = 1
           /\ request' = <<>>
           /\ InFlightEnqueues' = InFlightEnqueues - 1
     /\ (/\ SettleStep
         /\ Completed.mutation = "enqueue"
         /\ Completed.outcome = "accepted") => toasts' = 0
     /\ toasts' # 0 => (SettleStep /\ Completed.outcome # "accepted")
     /\ (request' # <<>> \/ InFlightEnqueues' > InFlightEnqueues) => SubmitStep]_vars

\* a rejected enqueue request has just completed with its one notification
C17_Witness ==
  /\ settled = <<[mutation |-> "enqueue", outcome |-> "rejected"]>>
  /\ toasts = 1
  /\ request = <<>>

\* the minimum height the claim gives a tier: SD 480, HD 720, FHD 1080
TierHeight(quality) ==
  CASE quality[1] = "sd" -> 480
    [] quality[1] = "hd" -> 720
    [] quality[1] = "fhd" -> 1080

\* the endpoint the claim gives a tier: split when it carries the suffix
TierEndpoint(quality) ==
  IF quality[Len(quality)] = "_s" THEN "/api/queue_split" ELSE "/api/queue_merged"

\* the form values just submitted
Submitted == submitted'[1]

\* C18: submitting URL u with any tier the Form offers sends exactly one
\* enqueue request, with body {url: u, height: the tier's minimum height}, to
\* the split endpoint for a tier with the split suffix and to the merged one
\* otherwise; HD split with https://example.com/v=abc sends height 720 to
\* /api/queue_split.
C18_TierToRequest ==
  [][/\ SubmitStep =>
          /\ request' =
               <<[mutation |-> "enqueue",
                  path |-> <<TierEndpoint(Submitted.quality)>>,
                  body |-> <<[url |-> Submitted.url,
                              height |-> TierHeight(Submitted.quality)]>>]>>
          /\ InFlightEnqueues' = InFlightEnqueues + 1
     /\ (/\ SubmitStep
         /\ Submitted.quality = <<"hd", "_s">>
         /\ Submitted.url = "https://example.com/v=abc")
        => /\ Requested.path = <<"/api/queue_split">>
           /\ Requested.body = <<[url |-> "https://example.com/v=abc", height |-> 720]>>]_vars

\* HD split was just submitted with the example URL
C18_Witness ==
  /\ submitted = <<[quality |-> <<"hd", "_s">>, url |-> "https://example.com/v=abc"]>>
  /\ request # <<>>
  /\ request[1].path = <<"/api/queue_split">>
  /\ request[1].body[1].height = 720

\* C19: the placeholders rendered are as many as the enqueue requests
\* submitted and not yet subsumed: those in flight and those completed with
\* no successful poll completed since.
C19_PlaceholderPerRequest == Placeholders = InFlightEnqueues + awaiting

\* C20: the placeholders rendered are at most as many as the enqueue requests
\* in flight, and none is rendered when none is in flight.
C20_PlaceholdersBounded ==
  /\ Placeholders <= InFlightEnqueues
  /\ InFlightEnqueues = 0 => Placeholders = 0

\* two enqueue requests are in flight and one placeholder is rendered
C20_Witness ==
  /\ isPending
  /\ earlier >= 1
  /\ Placeholders = 1
  /\ Len(queue) > 0

EmptyWithOneEnqueue ==
  /\ data = <<[now_playing |-> None, queue |-> <<>>, player |-> <<>>]>>
  /\ ~ServerOffline
  /\ InFlightEnqueues = 1

\* the now-playing card is rendered with no entry in it
NowPlayingEmpty == ~ServerOffline /\ nowPlaying = None

\* C21: with the empty Snapshot displayed and one enqueue request in flight
\* the view shows the empty now-playing card and an up-next list with exactly
\* one trailing placeholder.
C21_EmptyPlusTrailingPlaceholder ==
  EmptyWithOneEnqueue => (NowPlayingEmpty /\ QueuePlaceholders = 1)

\* C22: a rendered placeholder disappears only in the step that accepts a
\* Snapshot after an enqueue request has completed, and that step leaves no
\* placeholder for the completed requests.
C22_PlaceholderUntilPoll ==
  [][/\ (Placeholders > 0 /\ Placeholders' = 0) =>
          (PollSuccessStep /\ awaiting > 0)
     /\ (PollSuccessStep /\ awaiting > 0 /\ InFlightEnqueues' = 0) =>
          Placeholders' = 0]_vars

\* no placeholder and no request outstanding, and the rendered up-next order
\* is the order of the Snapshot held
Settled ==
  /\ Placeholders = 0
  /\ InFlightEnqueues = 0
  /\ inFlight = 0
  /\ queue = UpNext(items)

\* C24: unless the user keeps acting or polls keep failing (either resets
\* quiet infinitely often), the view eventually stays settled: no
\* placeholder, no request outstanding, and the rendered order that of the
\* latest Snapshot.
C24_NoWedgedState == ([]<>(quiet = 0)) \/ <>[]Settled

\* ---- what the claims expect of the commands and the Snapshot ----
\* C25: a step that sends a transport command, Cancel, Promote or ClearAll,
\* and a step in which such a request completes, resolved or failed, leaves
\* the Snapshot, the rendered up-next order and the failure flag as they were
\* and a fetch of the poller in flight stays in flight; the Snapshot is
\* written only when a poll succeeds, the failure flag only when a poll
\* terminates, the rendered order only when a poll succeeds or a drag ends.
C25_CommandsWriteNothing ==
  [][/\ (request' # <<>> \/ (SettleStep /\ Completed.mutation \in Mutations)) =>
          /\ data' = data
          /\ queue' = queue
          /\ errorRef' = errorRef
          /\ fetchStatus = "fetching" => fetchStatus' = "fetching"
     /\ data' # data => PollSuccessStep
     /\ errorRef' # errorRef => (PollSuccessStep \/ PollFailureStep)
     /\ queue' # queue => (PollSuccessStep \/ DragEndStep)]_vars

\* a command has just failed while a Snapshot is displayed and a fetch of the
\* poller is in flight
C25_Witness ==
  /\ settled # <<>>
  /\ settled[1].mutation \in Mutations
  /\ settled[1].outcome = "failed"
  /\ data # <<>>
  /\ ~errorRef
  /\ fetchStatus = "fetching"

\* C26: no Snapshot is accepted from a fetch that was issued before the
\* completion of a command the server may have applied.
C26_NoStaleSnapshotAccepted == [][PollSuccessStep => ~stale]_vars

\* ---- what the claims expect of a drag ----
\* the list without entry x
Without(list, x) == SelectSeq(list, LAMBDA y : y # x)

\* C27: the rendered up-next list never holds a job_id twice, and the release
\* of a drag only permutes it: the same job_ids are rendered after it as
\* before, the entries other than the dragged one in the same relative order.
C27_DragOnlyPermutes ==
  [][/\ Cardinality(Range(queue')) = Len(queue')
     /\ DragEndStep =>
          /\ Range(queue') = Range(queue)
          /\ Without(queue', active) = Without(queue, active)]_vars

\* ---- what the claims expect of the player controls ----
\* the step hands command c of the transport vocabulary to fetch
Sends(c) ==
  /\ request' # <<>>
  /\ Requested.mutation = "command"
  /\ Requested.body[1] = c

C29_SeekWithinLength ==
  [][Sends("SeekTo") =>
       /\ playerState # <<>>
       /\ Requested.body[2] \in 0..playerState[1].length]_vars
====
